---- MODULE Spec2Model ----
(***************************************************************************)
(* The MBTR descriptor of describe/descriptors/mbtr.py as a state machine: *)
(* one MBTR instance, its configuration and its per-structure caches, and  *)
(* the operations __init__, describe, create_with_grid and                 *)
(* create_extended_system.                                                 *)
(*                                                                         *)
(* Conventions.  An optional Python value is a tuple: <<>> is None and     *)
(* <<x>> is the value x.  An exception is a record [kind, number, name];   *)
(* kind "" means that nothing was raised.  Numbers that the code only      *)
(* passes on (geometry values, weights) are kept symbolic.                 *)
(***************************************************************************)
EXTENDS Integers, Sequences, FiniteSets, TLC

VARIABLES
    pc,         \* the caller's position: "new" (no instance), "failed" (__init__ raised),
                \* "ready" (it holds an instance), "expanded" and "reexpanded" (it holds the
                \* structure one and two create_extended_system() calls returned), "hung"
                \* (a call never returns)
    self,       \* <<>> or <<the instance's fields>>
    ret,        \* outcome of the last operation: [op, config, system, grid, err, value]
    log,        \* collaborator calls made by the last operation (aggregator, expansion)
    described,  \* history: the describe() calls on the instance that had returned a
                \* result before the last operation was called: "none", "one", "more"
    regridded,  \* history: the create_with_grid() calls made on the instance since
                \* its last describe() call, the last operation included
    subject     \* history: <<the structure of the last describe() call>> when that
                \* call returned a result, <<>> when it raised or there was none

vars == <<pc, self, ret, log, described, regridded, subject>>

----------------------------------------------------------------------------
\* Basic values

None == <<>>

Some(x) == <<x>>

IsNone(o) == Len(o) = 0

NoError == [kind |-> "", number |-> 0, name |-> ""]

Raise(kind, number, name) == [kind |-> kind, number |-> number, name |-> name]

IsError(e) == e.kind # ""

Range(s) == {s[i] : i \in DOMAIN s}

RECURSIVE SortedSeq(_)
\* sorted(list(set(...))): the ascending sequence of a finite set of integers
SortedSeq(S) ==
    IF S = {} THEN <<>>
    ELSE LET m == CHOOSE x \in S : \A y \in S : x <= y
         IN  <<m>> \o SortedSeq(S \ {m})

\* int(x) of a number num/den: truncation toward zero
IntOf(x) ==
    IF x[1] >= 0 THEN x[1] \div x[2] ELSE -((-x[1]) \div x[2])

Orders == <<1, 2, 3>>

KName(i) == IF i = 1 THEN "k1" ELSE IF i = 2 THEN "k2" ELSE "k3"

----------------------------------------------------------------------------
\* The requested orders: self.k

\* `1 in self.k` for a validated k (a set, kept as its ascending sequence)
InK(me, i) == \E j \in DOMAIN me.k.elems : me.k.elems[j] = i

\* the members of self.k in iteration order
KSeq(me) == me.k.elems

\* update(), lines 178-196: the k check; returns [k, err]
CheckK(k) ==
    IF k.type = "int"
    THEN [k |-> k, err |-> Raise("ValueError", 0, "k is an int")]
    ELSE IF k.type = "none"
    THEN [k |-> k, err |-> Raise("ValueError", 0, "k cannot be made into a set")]
    ELSE LET s == [type |-> "set", elems |-> SortedSeq(Range(k.elems))]
         IN  IF Range(s.elems) \subseteq 1..3
             THEN [k |-> s, err |-> NoError]
             ELSE [k |-> s, err |-> Raise("ValueError", 0, "invalid k value")]

----------------------------------------------------------------------------
\* The weighting specification: self.weighting

\* weight_info.get(key): None when the key is missing or holds None
WGet(info, key) == info[key]

RECURSIVE CheckWeightingFrom(_, _)
\* update(), lines 199-221: for each k > 1 of ks, the weighting function is
\* known and an exponential carries cutoff and scale
CheckWeightingFrom(weighting, ks) ==
    IF Len(ks) = 0 THEN NoError
    ELSE IF Head(ks) <= 1 THEN CheckWeightingFrom(weighting, Tail(ks))
    ELSE LET entry == weighting[1][KName(Head(ks))]
         IN  IF entry[1] = "absent" THEN Raise("KeyError", Head(ks), "weighting")
             ELSE IF entry[1] = "none" THEN Raise("AttributeError", Head(ks), "get")
             ELSE LET info == entry[2]
                      function == WGet(info, "function")
                  IN  IF function \notin {<<"exponential">>, <<"unity">>}
                      THEN Raise("ValueError", Head(ks), "unknown weighting function")
                      ELSE IF function = <<"exponential">> /\ IsNone(WGet(info, "cutoff"))
                      THEN Raise("ValueError", Head(ks), "cutoff")
                      ELSE IF function = <<"exponential">> /\ IsNone(WGet(info, "scale"))
                      THEN Raise("ValueError", Head(ks), "scale")
                      ELSE CheckWeightingFrom(weighting, Tail(ks))

CheckWeighting(me) ==
    IF IsNone(me.weighting) THEN NoError
    ELSE CheckWeightingFrom(me.weighting, KSeq(me))

RECURSIVE CheckPeriodicFrom(_, _)
\* update(), lines 224-239: a periodic configuration has a non-unity
\* weighting function for each requested k > 1
CheckPeriodicFrom(weighting, ks) ==
    IF Len(ks) = 0 THEN NoError
    ELSE IF Head(ks) <= 1 THEN CheckPeriodicFrom(weighting, Tail(ks))
    ELSE IF IsNone(weighting) THEN Raise("ValueError", Head(ks), "periodic needs weighting")
    ELSE LET entry == weighting[1][KName(Head(ks))]
         IN  IF entry[1] = "absent" THEN Raise("KeyError", Head(ks), "weighting")
             ELSE IF entry[1] = "none" THEN Raise("ValueError", Head(ks), "periodic needs weighting")
             ELSE IF entry[2].function \in {None, <<"unity">>}
             THEN Raise("ValueError", Head(ks), "periodic needs weighting")
             ELSE CheckPeriodicFrom(weighting, Tail(ks))

\* a variant of CheckPeriodic that accepts every weighting
CheckPeriodicSkipped(me) == NoError

CheckPeriodic(me) ==
    IF me.periodic THEN CheckPeriodicFrom(me.weighting, KSeq(me)) ELSE NoError

----------------------------------------------------------------------------
\* The grid: self.grid

GridFields == <<"min", "max", "sigma", "n">>

RECURSIVE MissingField(_, _)
\* check_grid(), lines 271-276: the first of min, max, sigma, n that info
\* lacks, or "" when all four are there
MissingField(info, names) ==
    IF Len(names) = 0 THEN ""
    ELSE IF IsNone(info[Head(names)]) THEN Head(names)
    ELSE MissingField(info, Tail(names))

RECURSIVE CheckGridFrom(_, _)
\* check_grid(), lines 267-282: for each requested order with grid
\* information, the four values are present, n is made an integer (in the
\* grid itself) and min < max is asserted; returns [grid, err]
CheckGridFrom(grid, ks) ==
    IF Len(ks) = 0 THEN [grid |-> grid, err |-> NoError]
    ELSE IF Head(ks) \notin 1..3 THEN CheckGridFrom(grid, Tail(ks))
    ELSE LET name == KName(Head(ks))
             entry == grid[1][name]
         IN  IF entry[1] = "absent" THEN CheckGridFrom(grid, Tail(ks))
             ELSE LET info == entry[2]
                      missing == MissingField(info, GridFields)
                  IN  IF missing # ""
                      THEN [grid |-> grid, err |-> Raise("KeyError", Head(ks), missing)]
                      ELSE LET n == IntOf(info.n[1])
                               coerced == [info EXCEPT !.n = Some(<<n, 1>>)]
                               grid2 == Some([grid[1] EXCEPT ![name] = <<"info", coerced>>])
                           IN  IF info.min[1] < info.max[1]
                               THEN CheckGridFrom(grid2, Tail(ks))
                               ELSE [grid |-> grid2,
                                     err |-> Raise("AssertionError", Head(ks), "min < max")]

\* check_grid(), lines 263-282
check_grid(me, grid) ==
    IF IsNone(grid) THEN [grid |-> grid, err |-> NoError]
    ELSE CheckGridFrom(grid, KSeq(me))

----------------------------------------------------------------------------
\* update(): validation of the configuration and the element index map

\* update(), lines 245-261: the sorted atomic numbers and what is derived
UpdateIndex(me) ==
    LET sorted == SortedSeq(Range(me.atomic_numbers))
    IN  [me EXCEPT !.atomic_numbers = sorted,
                   !.n_elements = Some(Len(sorted)),
                   !.min_atomic_number = Some(sorted[1]),
                   !.max_atomic_number = Some(sorted[Len(sorted)])]

\* update(), lines 241-261, gc being what check_grid made of self.grid
UpdateGrid(me, gc) ==
    IF IsError(gc.err) THEN [me |-> [me EXCEPT !.grid = gc.grid], err |-> gc.err]
    ELSE IF Len(me.atomic_numbers) = 0
    THEN [me |-> [me EXCEPT !.grid = gc.grid], err |-> Raise("ValueError", 0, "max of empty")]
    ELSE [me |-> UpdateIndex([me EXCEPT !.grid = gc.grid]), err |-> NoError]

\* update(), lines 198-261, we and pe being the outcome of the weighting
\* check and of the check of a periodic configuration
UpdateWeighting(me, we, pe) ==
    IF IsError(we) THEN [me |-> me, err |-> we]
    ELSE IF IsError(pe) THEN [me |-> me, err |-> pe]
    ELSE UpdateGrid(me, check_grid(me, me.grid))

\* update(), lines 196-261, err being the outcome of the k check
UpdateChecked(me, err) ==
    IF IsError(err) THEN [me |-> me, err |-> err]
    ELSE UpdateWeighting(me, CheckWeighting(me), CheckPeriodic(me))

\* update(), lines 178-261, kc being what the k check made of self.k
UpdateK(me, kc) ==
    UpdateChecked(IF me.k.type \in {"int", "none"} THEN me ELSE [me EXCEPT !.k = kc.k],
                  kc.err)

\* update(), lines 175-261; returns [me, err]
update(me) == UpdateK(me, CheckK(me.k))

\* atomic_number_to_index[number]: <<>> for a KeyError
atomic_number_to_index(me, number) ==
    LET hits == {i \in DOMAIN me.atomic_numbers : me.atomic_numbers[i] = number}
    IN  IF hits = {} THEN None ELSE Some((CHOOSE i \in hits : TRUE) - 1)

RECURSIVE ListOfSet(_)
\* list(set(atomic_numbers)), line 156: one of each number, in the order the
\* set iterates (here: by first occurrence); update() sorts the list
ListOfSet(numbers) ==
    IF Len(numbers) = 0 THEN <<>>
    ELSE <<Head(numbers)>> \o ListOfSet(SelectSeq(Tail(numbers), LAMBDA z : z # Head(numbers)))

\* __init__(), lines 153-173
MBTR(atomic_numbers, k, periodic, grid, weighting, normalize_by_volume, flatten) ==
    LET me0 == [k |-> k,
                atomic_numbers |-> ListOfSet(atomic_numbers),
                grid |-> grid,
                weighting |-> weighting,
                periodic |-> periodic,
                normalize_by_volume |-> normalize_by_volume,
                normalize_gaussians |-> TRUE,
                flatten |-> flatten,
                n_elements |-> None,
                min_atomic_number |-> None,
                max_atomic_number |-> None,
                system |-> None,
                n_atoms_in_cell |-> None,
                present_indices |-> {},
                k1_geoms |-> None, k1_weights |-> None,
                k2_geoms |-> None, k2_weights |-> None,
                k3_geoms |-> None, k3_weights |-> None,
                axis_k1 |-> None, axis_k2 |-> None, axis_k3 |-> None]
    IN  update(me0)

----------------------------------------------------------------------------
\* Structures (describe.core.System): numbers, Cartesian positions, an
\* orthorhombic cell given by the lengths of its three cell vectors, and the
\* periodicity flag.  Positions and lengths are integers.

Sq(x) == x * x

\* squared distance of two positions
Dist2(p, q) == Sq(p[1] - q[1]) + Sq(p[2] - q[2]) + Sq(p[3] - q[3])

\* System.get_volume(): the volume of the cell
get_volume(system) == system.cell[1] * system.cell[2] * system.cell[3]

\* System.get_scaled_positions() followed by np.dot(., cell): a periodic
\* structure's fractional coordinates are wrapped into [0, 1)
WrappedPosition(system, p) ==
    [a \in 1..3 |->
        IF system.pbc /\ system.cell[a] > 0 THEN p[a] % system.cell[a] ELSE p[a]]

----------------------------------------------------------------------------
\* Periodic expansion: create_extended_system()

\* a variant of WeightBelowCutoff that compares the squares whatever the
\* sign of the logarithm of the cutoff
WeightBelowCutoffUnsigned(scale, mult, d2, cutoff) ==
    Sq(2 * scale * mult) * d2 > Sq(cutoff.nlog2)

\* weight < cutoff for weight = exp(-scale * mult * sqrt(d2)), where the
\* cutoff is exp(-nlog2 / 2) when cutoff.pos and a number <= 0 otherwise:
\* 2 * scale * mult * sqrt(d2) > nlog2, decided on the squares
WeightBelowCutoff(scale, mult, d2, cutoff) ==
    LET A == 2 * scale * mult
        L == cutoff.nlog2
    IN  IF ~cutoff.pos THEN FALSE
        ELSE IF A >= 0
        THEN (L < 0) \/ (A * A * d2 > L * L)
        ELSE (L < 0) /\ (A * A * d2 < L * L)

\* the factor of lines 545-546 and 582-583: distances count twice for k > 2
LoopFactor(term_number) == IF term_number > 2 THEN 2 ELSE 1

MaxCopySearch == 6

RECURSIVE CopySearch(_, _, _, _, _)
\* the while loop of lines 537-551 from n_copies on: the first n_copies whose
\* weight is below the cutoff, or -1 when the loop passes MaxCopySearch
CopySearch(n_copies, length, term_number, scale, cutoff) ==
    IF n_copies > MaxCopySearch THEN -1
    ELSE IF WeightBelowCutoff(scale, LoopFactor(term_number), Sq(n_copies * length), cutoff)
    THEN n_copies
    ELSE CopySearch(n_copies + 1, length, term_number, scale, cutoff)

\* the length the search of lines 536-551 uses for axis i_axis: line 541
\* reads cell_vector_lengths[0] for every axis
SearchLength(cell_vector_lengths, i_axis) == cell_vector_lengths[1]

\* lines 526-551: n_copies_axis
CopiesPerAxis(system, term_number, scale, cutoff) ==
    [i_axis \in 1..3 |->
        CopySearch(0, SearchLength(system.cell, i_axis), term_number, scale, cutoff)]

\* a variant of ValidCopy that keeps every copied atom
ValidCopyAlways(system, pos, term_number, scale, cutoff) == TRUE

\* np.any(weights >= cutoff, axis=1), lines 578-590: the copied atom at pos
\* is within the cutoff of at least one atom of the original cell
ValidCopy(system, pos, term_number, scale, cutoff) ==
    \E a \in DOMAIN system.positions :
        ~WeightBelowCutoff(scale, LoopFactor(term_number),
                           Dist2(pos, system.positions[a]), cutoff)

\* the image (i, j, k) that the three nested loops of lines 562-564 visit
\* as number idx = 0, 1, ...
ImageOf(copies, idx) ==
    LET nj == 2 * copies[2] + 1
        nk == 2 * copies[3] + 1
    IN  <<(idx \div (nj * nk)) - copies[1],
          ((idx \div nk) % nj) - copies[2],
          (idx % nk) - copies[3]>>

\* lines 562-596: the atoms kept of all images but the origin, in the order
\* of the loops and, within an image, of the original atoms
ExtendedAtoms(system, copies, term_number, scale, cutoff) ==
    LET total == (2 * copies[1] + 1) * (2 * copies[2] + 1) * (2 * copies[3] + 1)
        n == Len(system.numbers)
        wrapped == [a \in 1..n |-> WrappedPosition(system, system.positions[a])]
        candidate(x) ==
            LET im == ImageOf(copies, (x - 1) \div n)
                a == ((x - 1) % n) + 1
            IN  [number |-> system.numbers[a],
                 origin |-> im = <<0, 0, 0>>,
                 pos |-> <<wrapped[a][1] - im[1] * system.cell[1],
                           wrapped[a][2] - im[2] * system.cell[2],
                           wrapped[a][3] - im[3] * system.cell[3]>>]
        all == [x \in 1..(total * n) |-> candidate(x)]
    IN  SelectSeq(all, LAMBDA c : ~c.origin
                                  /\ ValidCopy(system, c.pos, term_number, scale, cutoff))

\* lines 598-608: the extended structure of the atoms and the kept images
ExtendedSystem(primitive_system, copies, images) ==
    IF \E a \in 1..3 : copies[a] < 0
    THEN [system |-> primitive_system, copies |-> copies, hung |-> TRUE]
    ELSE [system |-> [numbers |-> primitive_system.numbers
                                    \o [x \in DOMAIN images |-> images[x].number],
                      positions |-> primitive_system.positions
                                    \o [x \in DOMAIN images |-> images[x].pos],
                      cell |-> primitive_system.cell,
                      pbc |-> FALSE],
          copies |-> copies,
          hung |-> FALSE]

\* lines 553-608, copies being n_copies_axis
ExpandBy(primitive_system, term_number, scale, cutoff, copies) ==
    ExtendedSystem(primitive_system, copies,
                   ExtendedAtoms(primitive_system, copies, term_number, scale, cutoff))

\* lines 518-608, weight_info being self.weighting["k<term_number>"]
ExpandWith(primitive_system, term_number, weight_info) ==
    ExpandBy(primitive_system, term_number, weight_info.scale[1], weight_info.cutoff[1],
             CopiesPerAxis(primitive_system, term_number,
                           weight_info.scale[1], weight_info.cutoff[1]))

\* create_extended_system(), lines 502-608; returns [system, copies, hung]
create_extended_system(me, primitive_system, term_number) ==
    ExpandWith(primitive_system, term_number, me.weighting[1][KName(term_number)][2])

----------------------------------------------------------------------------
\* The geometry aggregator (describe.libmbtr.cmbtrwrapper.CMBTRWrapper): for
\* one order, a mapping from non-decreasing element-index tuples to the list
\* of raw geometry values and the parallel list of weights, one entry per
\* particle tuple found.  A geometry value is kept as the squared distances
\* it is computed from, a weight as its function, scale and distances.

ElementIndex(me, system, a) == atomic_number_to_index(me, system.numbers[a])[1]

\* lexicographic order of two index tuples of one length
LexLess(s, t) ==
    \E i \in DOMAIN s :
        /\ s[i] < t[i]
        /\ \A j \in 1..(i - 1) : s[j] = t[j]

\* sorted(geoms.keys()): the tuples of S in ascending lexicographic order
SortedKeys(S) ==
    LET rank(x) == Cardinality({y \in S : LexLess(y, x)})
    IN  [r \in 1..Cardinality(S) |-> CHOOSE x \in S : rank(x) = r - 1]

\* the sorted tuple of two or three element indices
SortTuple(t) ==
    LET lo(x, y) == IF x <= y THEN x ELSE y
        hi(x, y) == IF x <= y THEN y ELSE x
    IN  IF Len(t) = 2 THEN <<lo(t[1], t[2]), hi(t[1], t[2])>>
        ELSE <<lo(lo(t[1], t[2]), t[3]),
               hi(lo(t[1], t[2]), lo(hi(t[1], t[2]), t[3])),
               hi(hi(t[1], t[2]), t[3])>>

\* the particle tuples of one order in the order they are found: the first
\* particle is one of the n_atoms_in_cell original ones, the indices increase
ParticleTuples(order, n_orig, n_total) ==
    LET all == IF order = 1 THEN [x \in 1..n_orig |-> <<x>>]
               ELSE IF order = 2
               THEN [x \in 1..(n_orig * n_total) |->
                        <<((x - 1) \div n_total) + 1, ((x - 1) % n_total) + 1>>]
               ELSE [x \in 1..(n_orig * n_total * n_total) |->
                        <<((x - 1) \div (n_total * n_total)) + 1,
                          (((x - 1) \div n_total) % n_total) + 1,
                          ((x - 1) % n_total) + 1>>]
    IN  SelectSeq(all, LAMBDA t : \A x \in 1..(order - 1) : t[x] < t[x + 1])

\* the raw geometry value of a particle tuple: the atomic number (order 1),
\* the inverse distance (order 2), the cosine of the angle (order 3)
GeometryValue(system, t) ==
    IF Len(t) = 1 THEN <<system.numbers[t[1]]>>
    ELSE IF Len(t) = 2 THEN <<Dist2(system.positions[t[1]], system.positions[t[2]])>>
    ELSE <<Dist2(system.positions[t[1]], system.positions[t[2]]),
           Dist2(system.positions[t[2]], system.positions[t[3]]),
           Dist2(system.positions[t[1]], system.positions[t[3]])>>

\* the weight of a particle tuple under the weighting function
WeightValue(system, t, weight_func, parameters) ==
    IF weight_func = "unity"
    THEN [function |-> "unity", scale |-> 0, x |-> <<>>]
    ELSE [function |-> weight_func, scale |-> parameters.scale,
          x |-> GeometryValue(system, t)]

\* the key of a particle tuple: the element indices of its particles
KeyOf(index, order, t) ==
    IF order = 1 THEN <<index[t[1]]>>
    ELSE SortTuple([x \in 1..order |-> index[t[x]]])

\* key, geometry value and weight of each particle tuple found
Entries(system, index, order, found, weight_func, parameters) ==
    [x \in DOMAIN found |->
        [key |-> KeyOf(index, order, found[x]),
         geom |-> GeometryValue(system, found[x]),
         weight |-> WeightValue(system, found[x], weight_func, parameters)]]

\* one field of each entry
Field(es, name) == [x \in DOMAIN es |-> es[x][name]]

\* the entries by key: the two maps the wrapper returns
Grouped(entries, keys) ==
    [geoms |-> [key \in keys |->
                   Field(SelectSeq(entries, LAMBDA e : e.key = key), "geom")],
     weights |-> [key \in keys |->
                     Field(SelectSeq(entries, LAMBDA e : e.key = key), "weight")]]

GroupByKey(entries) == Grouped(entries, {entries[x].key : x \in DOMAIN entries})

\* get_k1/k2/k3_geoms_and_weights of the wrapper; returns [geoms, weights]
Aggregate(me, system, order, weight_func, parameters) ==
    GroupByKey(Entries(system,
                       [a \in DOMAIN system.numbers |-> ElementIndex(me, system, a)],
                       order,
                       ParticleTuples(order, me.n_atoms_in_cell[1], Len(system.numbers)),
                       weight_func, parameters))

----------------------------------------------------------------------------
\* Grid settings and get_number_of_features()

RECURSIVE CeilFrom(_, _, _, _)
\* math.ceil(p/q + (c/2)*sqrt(2)), searched upward from m: the first m with
\* m - p/q >= (c/2)*sqrt(2), decided on the squares
CeilFrom(m, p, q, c) ==
    IF m * q - p >= 0 /\ 2 * Sq(m * q - p) >= c * c * q * q THEN m
    ELSE CeilFrom(m + 1, p, q, c)

\* the default grid of an order, lines 431-439, 447-455, 463-471: with
\* decay_factor = 3*sqrt(2), (max_k - min_k)/sigma/4 is 5R/2 + (3/2)sqrt(2)
\* for order 1 (R = max - min atomic number), 320/7 + (3/2)sqrt(2) for order
\* 2 and (11/2)sqrt(2) for order 3
DefaultSettings(me, order) ==
    LET R == me.max_atomic_number[1] - me.min_atomic_number[1]
        m == IF order = 1 THEN CeilFrom(0, 5 * R, 2, 3)
             ELSE IF order = 2 THEN CeilFrom(0, 320, 7, 3)
             ELSE CeilFrom(0, 0, 1, 11)
    IN  [min |-> <<"default", order>>, max |-> <<"default", order>>,
         sigma |-> <<"default", order>>, n |-> Some(<<m + 1, 1>>)]

\* get_k1_settings(), get_k2_settings(), get_k3_settings(), lines 425-471
get_settings(me, order) ==
    IF ~IsNone(me.grid) /\ me.grid[1][KName(order)][1] # "absent"
    THEN me.grid[1][KName(order)][2]
    ELSE DefaultSettings(me, order)

\* settings["n"] as the number it holds
GridN(settings) == settings.n[1][1]

\* a variant of FeaturesOfOrder that counts every ordered pair for order 2
FeaturesOfOrderDense(me, order) ==
    LET n_elem == me.n_elements[1]
        n == GridN(get_settings(me, order))
    IN  IF order = 1 THEN n_elem * n
        ELSE IF order = 2 THEN n_elem * n_elem * n
        ELSE ((n_elem * n_elem * (n_elem + 1)) * n) \div 2

\* the number of features of one order, lines 487-498
FeaturesOfOrder(me, order) ==
    LET n_elem == me.n_elements[1]
        n == GridN(get_settings(me, order))
    IN  IF order = 1 THEN n_elem * n
        ELSE IF order = 2 THEN ((n_elem * (n_elem + 1)) * n) \div 2
        ELSE ((n_elem * n_elem * (n_elem + 1)) * n) \div 2

RECURSIVE SumFeatures(_, _)
SumFeatures(me, ks) ==
    IF Len(ks) = 0 THEN 0
    ELSE FeaturesOfOrder(me, Head(ks)) + SumFeatures(me, Tail(ks))

\* get_number_of_features(), lines 473-500
get_number_of_features(me) ==
    SumFeatures(me, SelectSeq(Orders, LAMBDA i : InK(me, i)))

----------------------------------------------------------------------------
\* Broadening and the per-order tensors

\* gaussian_sum(), lines 610-646: the n values of the broadened sequence,
\* kept as what they are computed from; dx = (stop - start)/(n - 1) divides
\* by zero for n = 1.  Returns [err, values]
gaussian_sum(me, centers, weights, settings) ==
    LET n == GridN(settings)
        values == [n |-> n, centers |-> centers, weights |-> weights,
                   min |-> settings.min, max |-> settings.max, sigma |-> settings.sigma,
                   normalized |-> me.normalize_gaussians, divided |-> <<>>]
    IN  IF n = 1 THEN [err |-> Raise("ZeroDivisionError", n, "dx"), values |-> values]
        ELSE [err |-> NoError, values |-> values]

\* the index m at which K2 and K3 write the combination that is number m of
\* the sorted keys present (enumerate(sorted(geoms.keys())), lines 824, 868)
BlockIndex(me, order, keys, m) == m - 1

\* the shape of the tensor of one order, lines 776-779, 818-822, 862-866
TensorShape(me, order, n) ==
    LET n_elem == me.n_elements[1]
    IN  IF me.flatten
        THEN <<1, IF order = 1 THEN n_elem * n
                  ELSE IF order = 2 THEN ((n_elem * (n_elem + 1)) * n) \div 2
                  ELSE ((n_elem * n_elem * (n_elem + 1)) * n) \div 2>>
        ELSE [x \in 1..(order + 1) |-> IF x <= order THEN n_elem ELSE n]

\* a variant of TensorSlot that places order 1 like the other orders, by
\* the rank of the key among the keys present
TensorSlotByRank(me, order, keys, m, n) ==
    IF me.flatten
    THEN [index |-> <<0>>, start |-> (m - 1) * n, end |-> m * n]
    ELSE [index |-> keys[m], start |-> 0, end |-> n]

\* the cell(s) one combination is written to: in a flattened tensor the
\* columns [start, end) of row 0, lines 790-793, 834-837, 879-882; in a
\* dense tensor the whole last axis at the index tuple, lines 795, 839, 884
TensorSlot(me, order, keys, m, n) ==
    IF me.flatten
    THEN LET b == IF order = 1 THEN keys[m][1] ELSE BlockIndex(me, order, keys, m)
         IN  [index |-> <<0>>, start |-> b * n, end |-> (b + 1) * n]
    ELSE [index |-> keys[m], start |-> 0, end |-> n]

\* the tensor of one order before anything is written to it
EmptyTensor(me, order, n) ==
    [order |-> order, shape |-> TensorShape(me, order, n), data |-> {}]

\* self._axis_k1 = np.linspace(start, stop, n), lines 770, 812, 856
WithAxis(me, order, settings) ==
    IF order = 1
    THEN [me EXCEPT !.axis_k1 = Some([min |-> settings.min, max |-> settings.max,
                                      n |-> GridN(settings)])]
    ELSE IF order = 2
    THEN [me EXCEPT !.axis_k2 = Some([min |-> settings.min, max |-> settings.max,
                                      n |-> GridN(settings)])]
    ELSE [me EXCEPT !.axis_k3 = Some([min |-> settings.min, max |-> settings.max,
                                      n |-> GridN(settings)])]

\* self._k1_geoms, self._k2_geoms, self._k3_geoms
CachedGeoms(me, order) ==
    IF order = 1 THEN me.k1_geoms ELSE IF order = 2 THEN me.k2_geoms ELSE me.k3_geoms

\* self._k1_weights, self._k2_weights, self._k3_weights
CachedWeights(me, order) ==
    IF order = 1 THEN me.k1_weights ELSE IF order = 2 THEN me.k2_weights ELSE me.k3_weights

\* the body of the loop over the keys, lines 781-795, 824-839, 868-884: what
\* is written for key number m, slot being where and g its broadening
BlockAt(slot, key, g) ==
    [index |-> slot.index, start |-> slot.start, end |-> slot.end,
     key |-> key, values |-> g.values]

Block(me, order, settings, geoms, weights, keys, m) ==
    BlockAt(TensorSlot(me, order, keys, m, GridN(settings)), keys[m],
            gaussian_sum(me, geoms[keys[m]], weights[keys[m]], settings))

\* the loop over the keys, first being the broadening of the first key
KLoop(me, order, settings, geoms, weights, keys, first) ==
    IF Len(keys) > 0 /\ IsNone(weights)
    THEN [me |-> me, err |-> Raise("TypeError", order, "weights"),
          tensor |-> EmptyTensor(me, order, GridN(settings))]
    ELSE IF Len(keys) > 0 /\ IsError(first.err)
    THEN [me |-> me, err |-> first.err, tensor |-> EmptyTensor(me, order, GridN(settings))]
    ELSE [me |-> me, err |-> NoError,
          tensor |-> [EmptyTensor(me, order, GridN(settings)) EXCEPT
                         !.data = {Block(me, order, settings, geoms, weights[1], keys, m) :
                                      m \in DOMAIN keys}]]

\* the loop over sorted(geoms.keys())
KKeys(me, order, settings, geoms, weights, keys) ==
    KLoop(me, order, settings, geoms, weights, keys,
          gaussian_sum(me, geoms[keys[1]], weights[1][keys[1]], settings))

\* K1(), K2(), K3() once the axis is set
KOn(me, order, settings, geoms, weights) ==
    IF IsNone(geoms)
    THEN [me |-> me, err |-> Raise("AttributeError", order, "keys"),
          tensor |-> EmptyTensor(me, order, GridN(settings))]
    ELSE KKeys(me, order, settings, geoms[1], weights, SortedKeys(DOMAIN geoms[1]))

\* K1(), K2(), K3(), lines 756-886, on the cached geometry of the order;
\* returns [me, err, tensor]
K(me, order, settings) ==
    IF GridN(settings) < 0
    THEN [me |-> me, err |-> Raise("ValueError", GridN(settings), "linspace"),
          tensor |-> EmptyTensor(me, order, GridN(settings))]
    ELSE KOn(WithAxis(me, order, settings), order, settings,
             CachedGeoms(me, order), CachedWeights(me, order))

----------------------------------------------------------------------------
\* create_with_grid()

NoValue == [flat |-> FALSE, width |-> 0, data |-> {}, parts |-> <<>>, system |-> <<>>]

\* mbtr.append(k1), lines 319, 324, 331: r is what K1, K2 or K3 returned
Appended(t, r) ==
    IF IsError(r.err) THEN [me |-> r.me, err |-> r.err, mbtr |-> <<>>]
    ELSE [me |-> r.me, err |-> NoError, mbtr |-> Append(t.mbtr, r.tensor)]

\* one of the three blocks of lines 313-331: when order is requested, its
\* tensor is computed and appended to mbtr; t is [me, err, mbtr] so far
AppendTensor(t, order) ==
    IF IsError(t.err) \/ ~InK(t.me, order) THEN t
    ELSE Appended(t, K(t.me, order, get_settings(t.me, order)))

RECURSIVE TensorsFrom(_, _)
TensorsFrom(t, ks) ==
    IF Len(ks) = 0 THEN t
    ELSE TensorsFrom(AppendTensor(t, Head(ks)), Tail(ks))

\* lines 312-331: the tensors of the requested orders, in the order ks
\* names them; returns [me, err, mbtr]
Tensors(me, ks) == TensorsFrom([me |-> me, err |-> NoError, mbtr |-> <<>>], ks)

\* a variant of TensorOrder: the orders descending
TensorOrderDescending == <<3, 2, 1>>

\* the order in which create_with_grid() computes and appends the tensors
TensorOrder == <<1, 2, 3>>

\* the column offset of a tensor in the flattened vector, lines 334-345
ColumnOffset(length) == length

\* lines 334-350: the blocks of the tensors of mbtr, each tensor's columns
\* shifted by the summed widths of the tensors before it; returns
\* [length, data]
Concatenate(mbtr) ==
    LET size(x) == mbtr[x].shape[2]
        lengthBefore == [x \in 1..(Len(mbtr) + 1) |->
                            IF x = 1 THEN 0
                            ELSE IF x = 2 THEN size(1)
                            ELSE IF x = 3 THEN size(1) + size(2)
                            ELSE size(1) + size(2) + size(3)]
        shifted(x) == {[b EXCEPT !.start = b.start + ColumnOffset(lengthBefore[x]),
                                 !.end = b.end + ColumnOffset(lengthBefore[x])] :
                          b \in mbtr[x].data}
    IN  [length |-> lengthBefore[Len(mbtr) + 1],
         data |-> UNION {shifted(x) : x \in DOMAIN mbtr}]

\* a variant of DivideBlock that divides twice
DivideBlockTwice(b, volume) ==
    [b EXCEPT !.values.divided = b.values.divided \o <<volume, volume>>]

\* x /= volume on every value of a block
DivideBlock(b, volume) ==
    [b EXCEPT !.values.divided = b.values.divided \o <<volume>>]

\* lines 352-363: the division by the volume of self.system
Normalize(me, data) ==
    IF me.normalize_by_volume
    THEN {DivideBlock(b, get_volume(me.system[1])) : b \in data}
    ELSE data

\* lines 346-355: the row vector of the concatenation c
Flattened(me, c) ==
    [me |-> me, err |-> NoError,
     value |-> [flat |-> TRUE, width |-> c.length, data |-> Normalize(me, c.data),
                parts |-> <<>>, system |-> None]]

\* lines 333-363, t being the tensors of the requested orders
Assembled(t) ==
    IF IsError(t.err)
    THEN [me |-> t.me, err |-> t.err, value |-> NoValue]
    ELSE IF t.me.flatten
    THEN IF Len(t.mbtr) = 0
         THEN [me |-> t.me, err |-> Raise("ValueError", 0, "concatenate"), value |-> NoValue]
         ELSE Flattened(t.me, Concatenate(t.mbtr))
    ELSE IF t.me.normalize_by_volume /\ IsNone(t.me.system)
    THEN [me |-> t.me, err |-> Raise("AttributeError", 0, "get_volume"), value |-> NoValue]
    ELSE [me |-> t.me, err |-> NoError,
          value |-> [flat |-> FALSE, width |-> 0, data |-> {}, system |-> None,
                     parts |-> [x \in DOMAIN t.mbtr |->
                                   [t.mbtr[x] EXCEPT !.data = Normalize(t.me, @)]]]]

\* lines 305-309, gc being what check_grid made of the argument
Regridded(me, grid, gc) ==
    IF IsNone(grid) THEN Assembled(Tensors(me, TensorOrder))
    ELSE IF IsError(gc.err) THEN [me |-> me, err |-> gc.err, value |-> NoValue]
    ELSE Assembled(Tensors([me EXCEPT !.grid = gc.grid], TensorOrder))

\* create_with_grid(), lines 301-363; grid is <<>> for the default argument
\* None; returns [me, err, value].  `for i in self.k` (line 267) and
\* `1 in self.k` (line 313) raise for a k that is an int or None
create_with_grid(me, grid) ==
    IF me.k.type \in {"int", "none"}
    THEN [me |-> me, err |-> Raise("TypeError", 0, "k is not iterable"), value |-> NoValue]
    ELSE Regridded(me, grid, check_grid(me, grid))

----------------------------------------------------------------------------
\* initialize_scalars() and describe()

\* a collaborator call, as the log keeps it
AggregateCall(me, order, system) ==
    [call |-> "aggregate", order |-> order, n_atoms |-> Len(system.numbers),
     copies |-> <<0, 0, 0>>, n_atoms_in_cell |-> me.n_atoms_in_cell[1]]

ExpandCall(order, ext) ==
    [call |-> "expand", order |-> order, n_atoms |-> Len(ext.system.numbers),
     copies |-> ext.copies]

\* a variant of ClearCaches that keeps the geometry of every order
ClearCachesKeepAll(me, system) ==
    [me EXCEPT !.n_atoms_in_cell = None,
               !.system = Some(system),
               !.axis_k1 = None, !.axis_k2 = None, !.axis_k3 = None]

\* a variant of ClearCaches that keeps the geometry of order 1
ClearCachesKeepOrder1(me, system) ==
    [me EXCEPT !.n_atoms_in_cell = None,
               !.system = Some(system),
               !.k2_geoms = None, !.k2_weights = None,
               !.k3_geoms = None, !.k3_weights = None,
               !.axis_k1 = None, !.axis_k2 = None, !.axis_k3 = None]

\* lines 375-385: the fields initialize_scalars() resets for a new system
ClearCaches(me, system) ==
    [me EXCEPT !.n_atoms_in_cell = None,
               !.system = Some(system),
               !.k1_geoms = None, !.k1_weights = None,
               !.k2_geoms = None, !.k2_weights = None,
               !.k3_geoms = None, !.k3_weights = None,
               !.axis_k1 = None, !.axis_k2 = None, !.axis_k3 = None]

\* the test that guards the aggregation of one order, lines 659, 687, 729
CacheEmpty(me, order) ==
    IF order = 1 THEN IsNone(me.k1_geoms) \/ IsNone(me.k1_weights)
    ELSE IF order = 2 THEN IsNone(me.k2_geoms) \/ IsNone(me.k2_weights)
    ELSE IsNone(me.k3_geoms) \/ IsNone(me.k2_weights)

\* the weighting of one order, lines 695-706, 738-749: unity for order 1
\* and when no weighting is given
WeightingOf(me, order) ==
    IF order > 1 /\ ~IsNone(me.weighting)
    THEN me.weighting[1][KName(order)][2]
    ELSE [function |-> <<"unity">>, scale |-> None, cutoff |-> None]

\* the parameters handed to the wrapper
ParametersOf(info) ==
    IF info.function[1] = "exponential"
    THEN [scale |-> info.scale[1], cutoff |-> info.cutoff[1]]
    ELSE [scale |-> 0, cutoff |-> [pos |-> TRUE, nlog2 |-> 0]]

\* self._k1_geoms, self._k1_weights = ..., lines 671, 709, 752
StoreGeoms(me, order, r) ==
    IF order = 1
    THEN [me EXCEPT !.k1_geoms = Some(r.geoms), !.k1_weights = Some(r.weights)]
    ELSE IF order = 2
    THEN [me EXCEPT !.k2_geoms = Some(r.geoms), !.k2_weights = Some(r.weights)]
    ELSE [me EXCEPT !.k3_geoms = Some(r.geoms), !.k3_weights = Some(r.weights)]

AggregateWith(me, system, order, info) ==
    StoreGeoms(me, order,
               Aggregate(me, system, order, info.function[1], ParametersOf(info)))

\* k1_geoms_and_weights(), k2_geoms_and_weights(), k3_geoms_and_weights(),
\* lines 648-754; returns [me, log]
geoms_and_weights(me, system, order) ==
    IF ~CacheEmpty(me, order) THEN [me |-> me, log |-> <<>>]
    ELSE [me |-> AggregateWith(me, system, order, WeightingOf(me, order)),
          log |-> <<AggregateCall(me, order, system)>>]

\* a variant of UnknownNumber that reports the smallest atomic number of
\* the system when one of them was not declared
UnknownNumberOfSystem(me, system) ==
    LET numbers == Range(system.numbers)
    IN  IF \A z \in numbers : ~IsNone(atomic_number_to_index(me, z)) THEN None
        ELSE Some(CHOOSE z \in numbers : \A y \in numbers : z <= y)

\* lines 390-401: the first atomic number of the system, in ascending
\* order, that was not declared; <<>> when all were
UnknownNumber(me, system) ==
    LET unknown == {z \in Range(system.numbers) : IsNone(atomic_number_to_index(me, z))}
    IN  IF unknown = {} THEN None
        ELSE Some(CHOOSE z \in unknown : \A y \in unknown : z <= y)

\* what the aggregation r adds to the instance and to the calls so far
Aggregated(calls, r) == [me |-> r.me, log |-> calls \o r.log, hung |-> FALSE]

\* lines 408-410, 418-420: the aggregation on the extended structure ext
Expanded(g, order, ext) ==
    IF ext.hung
    THEN [me |-> g.me, log |-> Append(g.log, ExpandCall(order, ext)), hung |-> TRUE]
    ELSE Aggregated(Append(g.log, ExpandCall(order, ext)),
                    geoms_and_weights(g.me, ext.system, order))

\* one of the three blocks of lines 403-423: when order is requested, the
\* periodic expansion (orders 2 and 3 of a periodic configuration) and the
\* aggregation; g is [me, log, hung] so far
Geometry(g, system, order) ==
    IF g.hung \/ ~InK(g.me, order) THEN g
    ELSE IF order > 1 /\ g.me.periodic
    THEN Expanded(g, order, create_extended_system(g.me, system, order))
    ELSE Aggregated(g.log, geoms_and_weights(g.me, system, order))

RECURSIVE Geometries(_, _, _)
\* lines 403-423, for the orders ks in turn; g is [me, log, hung]
Geometries(g, system, ks) ==
    IF Len(ks) = 0 THEN g
    ELSE Geometries(Geometry(g, system, Head(ks)), system, Tail(ks))

\* self.present_indices, lines 389-401: the indices added before unknown,
\* the first undeclared number, is met
WithPresent(me, system, unknown) ==
    [me EXCEPT !.present_indices =
        {atomic_number_to_index(me, z)[1] :
            z \in {y \in Range(system.numbers) : IsNone(unknown) \/ y < unknown[1]}}]

\* lines 389-423, me having the indices of the numbers present
InitializeGeometries(me, system, unknown, g) ==
    IF ~IsNone(unknown)
    THEN [me |-> me, err |-> Raise("KeyError", unknown[1], "atomic number not declared"),
          log |-> <<>>, hung |-> FALSE]
    ELSE [me |-> g.me, err |-> NoError, log |-> g.log, hung |-> g.hung]

InitializePresent(me, system, unknown) ==
    InitializeGeometries(me, system, unknown,
                         Geometries([me |-> me, log |-> <<>>, hung |-> FALSE], system, Orders))

\* lines 389-423, me having the number of atoms of the structure
InitializeCounted(me, system, unknown) ==
    InitializePresent(WithPresent(me, system, unknown), system, unknown)

InitializeKnown(me, system) ==
    InitializeCounted(me, system, UnknownNumber(me, system))

\* lines 387-423, u being what update() returned
InitializeUpdated(u, system) ==
    IF IsError(u.err)
    THEN [me |-> u.me, err |-> u.err, log |-> <<>>, hung |-> FALSE]
    ELSE InitializeKnown([u.me EXCEPT !.n_atoms_in_cell = Some(Len(system.numbers))],
                         system)

\* a variant of initialize_scalars that calls update() before it resets the
\* fields, so that a validation error leaves them as they were
InitializeValidatedFirst(me, system) ==
    LET u == update(me)
    IN  IF IsError(u.err) THEN [me |-> u.me, err |-> u.err, log |-> <<>>, hung |-> FALSE]
        ELSE InitializeUpdated([me |-> ClearCaches(u.me, system), err |-> NoError], system)

\* a variant of initialize_scalars that does not call update()
InitializeWithoutUpdate(me, system) ==
    InitializeUpdated([me |-> ClearCaches(me, system), err |-> NoError], system)

\* initialize_scalars(), lines 371-423; returns [me, err, log, hung]
initialize_scalars(me, system) ==
    InitializeUpdated(update(ClearCaches(me, system)), system)

\* lines 296-299, i being what initialize_scalars did and c what
\* create_with_grid returns after it
Described(i, c) ==
    IF IsError(i.err) \/ i.hung
    THEN [me |-> i.me, err |-> i.err, value |-> NoValue, log |-> i.log, hung |-> i.hung]
    ELSE [me |-> c.me, err |-> c.err, value |-> c.value, log |-> i.log, hung |-> FALSE]

DescribeAfter(i) == Described(i, create_with_grid(i.me, None))

\* describe(), lines 284-299; returns [me, err, value, log, hung]
describe(me, system) == DescribeAfter(initialize_scalars(me, system))

----------------------------------------------------------------------------
\* The inputs the operations are called with

MaxAtoms == 2

\* the atomic numbers structures are made of (1: H, 6: C)
StructureNumbers == {1, 6}

\* the arguments atomic_numbers of the constructor
DeclaredInputs == {<<1>>, <<6, 1, 6>>, <<>>}

KSet(elems) == [type |-> "set", elems |-> elems]

\* the arguments k of the constructor: the subsets of {1, 2, 3}, a list
\* with a repeated value, a set with an unsupported value, an int, None
KInputs ==
    {KSet(<<>>), KSet(<<1>>), KSet(<<2>>), KSet(<<3>>), KSet(<<1, 2>>), KSet(<<1, 3>>),
     KSet(<<2, 3>>), KSet(<<1, 2, 3>>), KSet(<<1, 4>>),
     [type |-> "list", elems |-> <<2, 1, 2>>],
     [type |-> "int", elems |-> <<2>>],
     [type |-> "none", elems |-> <<>>]}

GridInfo(min, max, sigma, n) ==
    <<"info", [min |-> min, max |-> max, sigma |-> sigma, n |-> n]>>

Absent == <<"absent">>

\* the arguments grid: None, grids that pass validation (n given as an
\* integer or as 7/2), a grid with n = 1, 0 and -1, and a grid with
\* min = max for order 1 and no sigma for order 2
GridInputs ==
    {None,
     Some([k1 |-> GridInfo(<<0>>, <<1>>, <<1>>, <<<<2, 1>>>>),
           k2 |-> GridInfo(<<0>>, <<2>>, <<1>>, <<<<7, 2>>>>),
           k3 |-> Absent]),
     Some([k1 |-> GridInfo(<<0>>, <<1>>, <<1>>, <<<<1, 1>>>>),
           k2 |-> GridInfo(<<0>>, <<1>>, <<1>>, <<<<0, 1>>>>),
           k3 |-> GridInfo(<<0>>, <<1>>, <<1>>, <<<<-1, 1>>>>)]),
     Some([k1 |-> GridInfo(<<1>>, <<1>>, <<1>>, <<<<2, 1>>>>),
           k2 |-> GridInfo(<<0>>, <<1>>, <<>>, <<<<2, 1>>>>),
           k3 |-> GridInfo(<<0>>, <<1>>, <<1>>, <<<<2, 1>>>>)])}

WeightInfo(function, scale, cutoff) ==
    <<"info", [function |-> function, scale |-> scale, cutoff |-> cutoff]>>

\* exp(-nlog2 / 2), a cutoff in (0, 1) for nlog2 > 0 and above 1 for nlog2 < 0
Cutoff(nlog2) == [pos |-> TRUE, nlog2 |-> nlog2]

Exponential(nlog2) == WeightInfo(<<"exponential">>, <<1>>, <<Cutoff(nlog2)>>)

Unity == WeightInfo(<<"unity">>, <<>>, <<>>)

\* a cutoff that is zero or negative
NonPositiveCutoff == [pos |-> FALSE, nlog2 |-> 0]

\* the arguments weighting: None, unity for both orders, exponential for
\* both, exponential for order 2 only, an exponential without its cutoff,
\* exponentials with a cutoff above 1 (exp(1/2)), an exponential of scale 0
\* for order 2, an exponential with a cutoff that is not positive for order 3
WeightingInputs ==
    {None,
     Some([k2 |-> Unity, k3 |-> Unity]),
     Some([k2 |-> Exponential(7), k3 |-> Exponential(13)]),
     Some([k2 |-> Exponential(7), k3 |-> Absent]),
     Some([k2 |-> WeightInfo(<<"exponential">>, <<1>>, <<>>), k3 |-> <<"none">>]),
     Some([k2 |-> Exponential(-1), k3 |-> Exponential(-1)]),
     Some([k2 |-> WeightInfo(<<"exponential">>, <<0>>, <<Cutoff(7)>>),
           k3 |-> Exponential(13)]),
     Some([k2 |-> Exponential(7),
           k3 |-> WeightInfo(<<"exponential">>, <<1>>, <<NonPositiveCutoff>>)])}

\* the arguments of the constructor: every k for a finite configuration of
\* the elements {1, 6}; every declared list, grid and weighting for a finite
\* configuration of all three orders; every weighting for a periodic one;
\* volume normalization for orders 1 and 2, finite and periodic
ConfigInputs ==
    [atomic_numbers : {<<6, 1, 6>>}, k : KInputs, periodic : {FALSE},
     grid : {None}, weighting : {None},
     normalize_by_volume : {FALSE}, flatten : BOOLEAN]
    \cup
    [atomic_numbers : DeclaredInputs, k : {KSet(<<1, 2, 3>>)}, periodic : {FALSE},
     grid : GridInputs,
     weighting : {None, Some([k2 |-> Exponential(7), k3 |-> Exponential(13)])},
     normalize_by_volume : {FALSE}, flatten : {TRUE}]
    \cup
    [atomic_numbers : {<<6, 1, 6>>},
     k : {KSet(<<1>>), KSet(<<2>>), KSet(<<1, 2, 3>>)},
     periodic : {TRUE}, grid : {None}, weighting : WeightingInputs,
     normalize_by_volume : {FALSE}, flatten : {TRUE}]
    \cup
    [atomic_numbers : {<<6, 1, 6>>}, k : {KSet(<<1, 2>>)}, periodic : BOOLEAN,
     grid : {None}, weighting : {Some([k2 |-> Exponential(7), k3 |-> Exponential(13)])},
     normalize_by_volume : {TRUE}, flatten : BOOLEAN]

\* where the atoms of the structures sit: the origin and the points at
\* distance 1 from it along the axes
AtomPosition(a) ==
    IF a = 1 THEN <<0, 0, 0>>
    ELSE IF a = 2 THEN <<1, 0, 0>>
    ELSE IF a = 3 THEN <<0, 1, 0>>
    ELSE <<0, 0, 1>>

\* the cell of the structures: the lengths of the three cell vectors
Cell == <<6, 6, 3>>

NumberSeqs == UNION {[1..len -> StructureNumbers] : len \in 1..MaxAtoms}

System(ns, cell) ==
    [numbers |-> ns, positions |-> [a \in DOMAIN ns |-> AtomPosition(a)],
     cell |-> cell, pbc |-> TRUE]

\* a second cell, of another volume
OtherCell == <<6, 3, 3>>

\* the structures describe() is called with
Systems == {System(ns, Cell) : ns \in NumberSeqs} \cup {System(<<1>>, OtherCell)}

----------------------------------------------------------------------------
\* The state machine

NoConfig == <<>>

Outcome(op, config, system, grid, r_err, value) ==
    [op |-> op, config |-> config, system |-> system, grid |-> grid,
     err |-> r_err, value |-> value]

\* a history after one more call
Count(history) == IF history = "none" THEN "one" ELSE "more"

Init ==
    /\ pc = "new"
    /\ self = None
    /\ ret = Outcome("none", NoConfig, None, None, NoError, NoValue)
    /\ log = <<>>
    /\ described = "none"
    /\ regridded = "none"
    /\ subject = None

\* mbtr = MBTR(...) with the arguments of one of configs
ConstructFrom(configs) ==
    /\ pc = "new"
    /\ \E c \in configs :
       \E r \in {MBTR(c.atomic_numbers, c.k, c.periodic, c.grid, c.weighting,
                      c.normalize_by_volume, c.flatten)} :
              /\ pc' = IF IsError(r.err) THEN "failed" ELSE "ready"
              /\ self' = IF IsError(r.err) THEN None ELSE Some(r.me)
              /\ ret' = Outcome("init", Some(c), None, None, r.err, NoValue)
              /\ log' = <<>>
              /\ described' = "none"
              /\ regridded' = "none"
              /\ subject' = None

\* mbtr = MBTR(...)
Construct == ConstructFrom(ConfigInputs)

\* the history before the next call
History ==
    IF ret.op = "describe" /\ ~IsError(ret.err) THEN Count(described) ELSE described

\* mbtr.describe(system)
Describe ==
    /\ pc = "ready"
    /\ \E system \in Systems :
       \E r \in {describe(self[1], system)} :
              /\ pc' = IF r.hung THEN "hung" ELSE "ready"
              /\ self' = Some(r.me)
              /\ ret' = Outcome("describe", NoConfig, Some(system), None, r.err, r.value)
              /\ log' = r.log
              /\ described' = History
              /\ regridded' = "none"
              /\ subject' = IF IsError(r.err) \/ r.hung THEN None ELSE Some(system)

\* mbtr.create_with_grid(grid)
CreateWithGrid ==
    /\ pc = "ready"
    /\ \E grid \in GridInputs :
       \E r \in {create_with_grid(self[1], grid)} :
              /\ pc' = "ready"
              /\ self' = Some(r.me)
              /\ ret' = Outcome("create_with_grid", NoConfig, None, Some(grid), r.err, r.value)
              /\ log' = <<>>
              /\ described' = History
              /\ regridded' = Count(regridded)
              /\ UNCHANGED subject

\* mbtr.create_extended_system(system, term_number) on the structure that
\* was just described and then on the structure that call returned, for a
\* periodic configuration and an order it expands in describe()
CreateExtendedSystem ==
    /\ \/ pc = "ready" /\ ret.op = "describe" /\ ~IsError(ret.err)
       \/ pc = "expanded"
    /\ self[1].periodic
    /\ \E term_number \in {i \in 2..3 : InK(self[1], i)} :
       /\ pc = "expanded" => term_number = log[1].order
       /\ \E primitive_system \in
              {IF pc = "ready" THEN ret.system[1] ELSE ret.value.system[1]} :
          \E r \in {create_extended_system(self[1], primitive_system, term_number)} :
              /\ pc' = IF r.hung THEN "hung"
                       ELSE IF pc = "ready" THEN "expanded" ELSE "reexpanded"
              /\ ret' = Outcome("create_extended_system", NoConfig, Some(primitive_system),
                                None, NoError, [NoValue EXCEPT !.system = Some(r.system)])
              /\ log' = <<ExpandCall(term_number, r)>>
              /\ UNCHANGED <<self, described, regridded, subject>>

Next == Construct \/ Describe \/ CreateWithGrid \/ CreateExtendedSystem

Spec == Init /\ [][Next]_vars

----------------------------------------------------------------------------
\* The state machine of a caller that also assigns the public attribute k
\* of an instance between calls

\* the values k is assigned: an int, None, a set with an unsupported value,
\* a list and a set of supported values
AssignedK ==
    {[type |-> "int", elems |-> <<2>>],
     [type |-> "none", elems |-> <<>>],
     KSet(<<1, 4>>),
     [type |-> "list", elems |-> <<2, 1, 2>>],
     KSet(<<1>>)}

\* the arguments of the constructor: every k for a finite configuration
ReconfigInputs ==
    [atomic_numbers : {<<6, 1, 6>>}, k : KInputs, periodic : {FALSE},
     grid : {None}, weighting : {None},
     normalize_by_volume : {FALSE}, flatten : {TRUE}]
    \cup
    [atomic_numbers : {<<1>>}, k : {KSet(<<1, 2>>)}, periodic : {FALSE},
     grid : {None}, weighting : {None},
     normalize_by_volume : {FALSE}, flatten : {TRUE}]

ReconfigConstruct == ConstructFrom(ReconfigInputs)

\* mbtr.k = k
SetK ==
    /\ pc = "ready"
    /\ \E k \in AssignedK :
           /\ self' = Some([self[1] EXCEPT !.k = k])
           /\ ret' = Outcome("set_k", NoConfig, None, None, NoError, NoValue)
    /\ log' = <<>>
    /\ described' = History
    /\ UNCHANGED <<pc, regridded, subject>>

ReconfigNext == ReconfigConstruct \/ SetK \/ Describe \/ CreateWithGrid

ReconfigSpec == Init /\ [][ReconfigNext]_vars

----------------------------------------------------------------------------
\* The state machine of a caller that, after describe() returned, calls
\* the public methods k1_geoms_and_weights, k2_geoms_and_weights and
\* k3_geoms_and_weights itself, on the structure it described

\* the configurations: finite structures, every k
AggregateInputs ==
    [atomic_numbers : {<<6, 1, 6>>}, k : KInputs, periodic : {FALSE},
     grid : {None},
     weighting : {None, Some([k2 |-> Exponential(7), k3 |-> Exponential(13)])},
     normalize_by_volume : {FALSE}, flatten : {TRUE}]

AggregateConstruct == ConstructFrom(AggregateInputs)

\* the name of the method of one order
GeomsAndWeightsName(order) ==
    IF order = 1 THEN "k1_geoms_and_weights"
    ELSE IF order = 2 THEN "k2_geoms_and_weights"
    ELSE "k3_geoms_and_weights"

\* mbtr.k1_geoms_and_weights(system), mbtr.k2_geoms_and_weights(system),
\* mbtr.k3_geoms_and_weights(system), system being the structure of the
\* describe() call that returned last
GeomsAndWeights ==
    /\ pc = "ready"
    /\ ~IsNone(subject)
    /\ \E order \in 1..3 :
       \E r \in {geoms_and_weights(self[1], subject[1], order)} :
              /\ self' = Some(r.me)
              /\ ret' = Outcome(GeomsAndWeightsName(order), NoConfig, subject, None,
                                NoError, NoValue)
              /\ log' = r.log
    /\ described' = History
    /\ UNCHANGED <<pc, regridded, subject>>

AggregateNext == AggregateConstruct \/ Describe \/ GeomsAndWeights

AggregateSpec == Init /\ [][AggregateNext]_vars

----------------------------------------------------------------------------
\* The state machine of two callers that each call describe() once on one
\* instance, from two threads: a call is the step initialize_scalars(system)
\* (line 297) followed by the step create_with_grid() (line 299), and the
\* steps of the two calls interleave.  Here pc and ret hold one position
\* ("idle", "initialized", "raised", "returned") and one outcome per caller.

Callers == {1, 2}

\* the configurations of the shared instance
InterleavedInputs ==
    [atomic_numbers : {<<6, 1, 6>>}, k : {KSet(<<1>>), KSet(<<1, 2>>)}, periodic : {FALSE},
     grid : {None}, weighting : {None},
     normalize_by_volume : BOOLEAN, flatten : BOOLEAN]

InterleavedInit ==
    /\ pc = [c \in Callers |-> "idle"]
    /\ \E c \in InterleavedInputs :
           self = Some(MBTR(c.atomic_numbers, c.k, c.periodic, c.grid, c.weighting,
                            c.normalize_by_volume, c.flatten).me)
    /\ ret = [c \in Callers |-> Outcome("none", NoConfig, None, None, NoError, NoValue)]
    /\ log = <<>>
    /\ described = "none"
    /\ regridded = "none"
    /\ subject = None

\* the first statement of describe(system) of caller c
InitializeScalars(c) ==
    /\ pc[c] = "idle"
    /\ \E system \in Systems :
       \E r \in {initialize_scalars(self[1], system)} :
           /\ pc' = [pc EXCEPT ![c] = IF IsError(r.err) THEN "raised" ELSE "initialized"]
           /\ self' = Some(r.me)
           /\ ret' = [ret EXCEPT ![c] = Outcome("describe", NoConfig, Some(system), None,
                                                r.err, NoValue)]
           /\ log' = r.log
    /\ UNCHANGED <<described, regridded, subject>>

\* the second statement of describe(system) of caller c
ReturnCreateWithGrid(c) ==
    /\ pc[c] = "initialized"
    /\ \E r \in {create_with_grid(self[1], None)} :
           /\ pc' = [pc EXCEPT ![c] = "returned"]
           /\ self' = Some(r.me)
           /\ ret' = [ret EXCEPT ![c].err = r.err, ![c].value = r.value]
    /\ log' = <<>>
    /\ UNCHANGED <<described, regridded, subject>>

InterleavedNext ==
    \E c \in Callers : InitializeScalars(c) \/ ReturnCreateWithGrid(c)

InterleavedSpec == InterleavedInit /\ [][InterleavedNext]_vars

----------------------------------------------------------------------------
\* The sorted, zero padded matrix descriptors of
\* describe/descriptors/sortedcoulombmatrix.py and sortedsinematrix.py.  A
\* matrix is a sequence of rows.  The entries are kept exactly, as 12 times
\* their value: the structures have their atoms on the x axis at distances
\* 1, 2, ... in a cubic cell of length 4, and charges that are fifth powers.

MaxMatrixAtoms == 3

\* q ** 2.4 for a charge that is a fifth power
Power24(z) == IF z = 32 THEN 4096 ELSE IF z = 1 THEN 1 ELSE 0

\* the distance of two atoms on the x axis
AxisDistance(p, q) == IF p[1] >= q[1] THEN p[1] - q[1] ELSE q[1] - p[1]

\* System.inverse_distance_matrix, times 12
inverse_distance_matrix(system) ==
    [i \in DOMAIN system.numbers |->
        [j \in DOMAIN system.numbers |->
            IF i = j THEN 0
            ELSE 12 \div AxisDistance(system.positions[i], system.positions[j])]]

\* twice sin(pi * d / length) ** 2 for a cell of length 4
TwiceSin2(d, length) ==
    IF d % length = 0 THEN 0 ELSE IF (2 * d) % length = 0 THEN 2 ELSE 1

\* lines 62-66 of sortedsinematrix.py: 1/phi, times 12, for a displacement
\* along x in an orthorhombic cell
ReciprocalPhi(system, i, j) ==
    24 \div (system.cell[1]
             * TwiceSin2(AxisDistance(system.positions[i], system.positions[j]),
                         system.cell[1]))

\* coulomb_matrix(), lines 52-58: q_i*q_j/|R_i - R_j| and 0.5*q_i**2.4
CoulombInteraction(system) ==
    [i \in DOMAIN system.numbers |->
        [j \in DOMAIN system.numbers |->
            IF i = j THEN 6 * Power24(system.numbers[i])
            ELSE system.numbers[i] * system.numbers[j]
                 * inverse_distance_matrix(system)[i][j]]]

\* sine_matrix(), lines 55-76: q_i*q_j/phi(R_i, R_j) and 0.5*q_i**2.4
SineInteraction(system) ==
    [i \in DOMAIN system.numbers |->
        [j \in DOMAIN system.numbers |->
            IF i = j THEN 6 * Power24(system.numbers[i])
            ELSE system.numbers[i] * system.numbers[j] * ReciprocalPhi(system, i, j)]]

RECURSIVE SumOfSquares(_)
SumOfSquares(row) ==
    IF Len(row) = 0 THEN 0 ELSE Sq(Head(row)) + SumOfSquares(Tail(row))

\* np.linalg.norm(cmat, axis=1), squared
RowNorms(mat) == [i \in DOMAIN mat |-> SumOfSquares(mat[i])]

\* np.argsort(norms, axis=0)[::-1]: the orders of the rows in which the
\* norms do not increase; rows of equal norm come in the order the sort
\* leaves them in
Argsorts(norms) ==
    {p \in Permutations(DOMAIN norms) :
        \A i \in 1..(Len(norms) - 1) : norms[p[i]] >= norms[p[i + 1]]}

\* a variant of Reordered that reorders the rows only
ReorderedRows(mat, sorted_indices) ==
    [i \in DOMAIN mat |-> mat[sorted_indices[i]]]

\* cmat[sorted_indices] and then cmat[:, sorted_indices]
Reordered(mat, sorted_indices) ==
    [i \in DOMAIN mat |-> [j \in DOMAIN mat |-> mat[sorted_indices[i]][sorted_indices[j]]]]

\* zeros[:cmat.shape[0], :cmat.shape[1]] = cmat; returns [err, value]
Padded(mat, n_atoms_max) ==
    IF Len(mat) > n_atoms_max
    THEN [err |-> Raise("ValueError", Len(mat), "broadcast"), value |-> <<>>]
    ELSE [err |-> NoError,
          value |-> [i \in 1..n_atoms_max |->
                        [j \in 1..n_atoms_max |->
                            IF i <= Len(mat) /\ j <= Len(mat) THEN mat[i][j] ELSE 0]]]

\* coulomb_matrix(), lines 48-72, and sine_matrix(), lines 51-90, from the
\* interaction matrix on
SortedAndPadded(me, mat, sorted_indices) ==
    Padded(Reordered(mat, sorted_indices), me.n_atoms_max)

coulomb_matrix(me, system, sorted_indices) ==
    SortedAndPadded(me, CoulombInteraction(system), sorted_indices)

sine_matrix(me, system, sorted_indices) ==
    SortedAndPadded(me, SineInteraction(system), sorted_indices)

\* cmat.flatten(): the rows one after the other
Flatten(mat) ==
    [x \in 1..(Len(mat) * Len(mat)) |->
        mat[((x - 1) \div Len(mat)) + 1][((x - 1) % Len(mat)) + 1]]

\* describe(), lines 43-46 and 46-49, m being the padded matrix
MatrixResult(me, m) ==
    IF IsError(m.err) THEN m
    ELSE IF me.flatten THEN [err |-> NoError, value |-> Flatten(m.value)]
    ELSE m

\* SortedCoulombMatrix.describe() and SortedSineMatrix.describe()
matrix_describe(me, system, sorted_indices) ==
    MatrixResult(me, IF me.class = "SortedCoulombMatrix"
                     THEN coulomb_matrix(me, system, sorted_indices)
                     ELSE sine_matrix(me, system, sorted_indices))

\* get_number_of_features() of both classes
matrix_get_number_of_features(me) == me.n_atoms_max * me.n_atoms_max

\* the interaction matrix of a structure for a descriptor
Interaction(me, system) ==
    IF me.class = "SortedCoulombMatrix" THEN CoulombInteraction(system)
    ELSE SineInteraction(system)

\* the charges of the atoms of the structures
Charges == {1, 32}

MatrixCell == <<4, 4, 4>>

\* the structures: one to MaxMatrixAtoms atoms at x = 0, 1, ...
MatrixSystems ==
    {[numbers |-> ns, positions |-> [a \in DOMAIN ns |-> <<a - 1, 0, 0>>],
      cell |-> MatrixCell, pbc |-> TRUE] :
        ns \in UNION {[1..len -> Charges] : len \in 1..MaxMatrixAtoms}}

MatrixInit ==
    /\ pc = "new"
    /\ self = None
    /\ ret = Outcome("none", NoConfig, None, None, NoError, <<>>)
    /\ log = <<>>
    /\ described = "none"
    /\ regridded = "none"
    /\ subject = None

\* SortedCoulombMatrix(n_atoms_max, flatten), SortedSineMatrix(n_atoms_max, flatten)
MatrixConstruct ==
    /\ pc = "new"
    /\ \E class \in {"SortedCoulombMatrix", "SortedSineMatrix"},
          n_atoms_max \in 1..MaxMatrixAtoms, flatten \in BOOLEAN :
           self' = Some([class |-> class, n_atoms_max |-> n_atoms_max, flatten |-> flatten])
    /\ pc' = "ready"
    /\ UNCHANGED <<ret, log, described, regridded, subject>>

\* descriptor.describe(system)
MatrixDescribe ==
    /\ pc = "ready"
    /\ \E system \in MatrixSystems :
       \E sorted_indices \in Argsorts(RowNorms(Interaction(self[1], system))) :
       \E r \in {matrix_describe(self[1], system, sorted_indices)} :
           ret' = Outcome("describe", NoConfig, Some(system), None, r.err, r.value)
    /\ UNCHANGED <<pc, self, log, described, regridded, subject>>

MatrixNext == MatrixConstruct \/ MatrixDescribe

MatrixSpec == MatrixInit /\ [][MatrixNext]_vars

----------------------------------------------------------------------------
\* Properties.  What the properties read of a state

\* the instance after the last operation
Me == self[1]

\* the last operation was op and returned a result to the caller
Returned(op) == pc = "ready" /\ ret.op = op /\ ~IsError(ret.err)

\* the blocks of one order in a flattened result
BlocksOf(order) == {b \in ret.value.data : Len(b.key) = order}

\* the summed widths of the requested orders smaller than order
OrderOffset(me, order) ==
    SumFeatures(me, SelectSeq(Orders, LAMBDA i : InK(me, i) /\ i < order))

\* the non-decreasing index tuples of one order over the declared elements
NonDecreasing(me, order) ==
    {t \in [1..order -> 0..(me.n_elements[1] - 1)] :
        \A x \in 1..(order - 1) : t[x] <= t[x + 1]}

\* the rank of a combination among all of them, in lexicographic order
CombinationRank(me, key) ==
    Cardinality({t \in NonDecreasing(me, Len(key)) : LexLess(t, key)})

\* the rank of an atomic number among the declared ones, ascending
ElementRank(me, z) == Cardinality({y \in Range(me.atomic_numbers) : y < z})

\* the sum C1 states, from n_elements and the grid sizes
FeatureSum(me) ==
    LET e == me.n_elements[1]
        n(order) == GridN(get_settings(me, order))
    IN  (IF InK(me, 1) THEN e * n(1) ELSE 0)
        + (IF InK(me, 2) THEN ((e * (e + 1)) \div 2) * n(2) ELSE 0)
        + (IF InK(me, 3) THEN ((e * e * (e + 1)) \div 2) * n(3) ELSE 0)

----------------------------------------------------------------------------
\* C1: with flatten, the width of the row vector describe() returns equals
\* get_number_of_features(), which is the sum over the requested orders of
\* n_elements*n, n_elements*(n_elements+1)/2*n and
\* n_elements*n_elements*(n_elements+1)/2*n
C1_WidthIsNumberOfFeatures ==
    (Returned("describe") /\ Me.flatten) =>
        /\ ret.value.flat
        /\ ret.value.width = get_number_of_features(Me)
        /\ get_number_of_features(Me) = FeatureSum(Me)
        /\ \A b \in ret.value.data : 0 <= b.start /\ b.end <= ret.value.width

\* describe() returned a row vector for all three orders and two elements
C1_Witness ==
    /\ Returned("describe") /\ Me.flatten
    /\ KSeq(Me) = <<1, 2, 3>> /\ Me.n_elements = Some(2)
    /\ ret.value.width = get_number_of_features(Me)
    /\ ret.value.width > 0
    /\ BlocksOf(3) # {}

\* C2: in the flattened output of order 2 and 3 the sequence of a
\* combination is at columns [m*n, (m+1)*n) of the order's block, m being
\* the combination's rank among all non-decreasing index tuples of the
\* declared elements, whichever other combinations the structure has
C2_BlockAtCombinationRank ==
    (Returned("describe") /\ Me.flatten) =>
        \A b \in ret.value.data :
            Len(b.key) > 1 =>
                LET n == GridN(get_settings(Me, Len(b.key)))
                    m == CombinationRank(Me, b.key)
                    offset == OrderOffset(Me, Len(b.key))
                IN  b.start = offset + m * n /\ b.end = offset + (m + 1) * n

\* C3: with flatten, the order 1 block of the element with index i (the
\* rank of its atomic number among the declared ones) is columns
\* [i*n, (i+1)*n) of a row of width n_elements*n, and a declared element
\* that is not in the structure has nothing in its columns
C3_ElementBlocks ==
    (Returned("describe") /\ Me.flatten /\ InK(Me, 1)) =>
        LET n == GridN(get_settings(Me, 1))
            present == Range(ret.system[1].numbers)
        IN  /\ FeaturesOfOrder(Me, 1) = Me.n_elements[1] * n
            /\ \A z \in present :
                   \E b \in BlocksOf(1) :
                       /\ b.start = ElementRank(Me, z) * n
                       /\ b.end = (ElementRank(Me, z) + 1) * n
                       /\ \A x \in DOMAIN b.values.centers : b.values.centers[x] = <<z>>
            /\ \A b \in BlocksOf(1) :
                   \E z \in present : b.start = ElementRank(Me, z) * n
            /\ Cardinality(BlocksOf(1)) = Cardinality(present)

\* declared {1, 6}, order 1 only, a structure of atomic number 1 only: a row
\* of 2*n entries with one block, that of index 0
C3_Witness ==
    /\ Returned("describe") /\ Me.flatten
    /\ KSeq(Me) = <<1>> /\ Me.atomic_numbers = <<1, 6>>
    /\ Range(ret.system[1].numbers) = {1}
    /\ ret.value.width = 2 * GridN(get_settings(Me, 1))
    /\ \E b \in ret.value.data :
           /\ ret.value.data = {b}
           /\ b.start = 0 /\ b.end = GridN(get_settings(Me, 1)) /\ b.end > 0

\* the atomic numbers of a structure that the instance does not declare
Undeclared(me, system) ==
    {z \in Range(system.numbers) : z \notin Range(me.atomic_numbers)}

\* C4: describe() on a structure with an atomic number that was not
\* declared raises an error naming that number, before any aggregation or
\* periodic expansion, on every such call
C4_UnknownNumberRaises ==
    (ret.op = "describe" /\ Undeclared(Me, ret.system[1]) # {}) =>
        /\ pc = "ready"
        /\ ret.err.kind = "KeyError"
        /\ ret.err.number \in Undeclared(Me, ret.system[1])
        /\ ret.value = NoValue
        /\ log = <<>>
        /\ \A order \in 1..3 : CacheEmpty(Me, order)

\* describe() raised for the undeclared number 6 on an instance on which an
\* earlier describe() call had returned a result
C4_Witness ==
    /\ ret.op = "describe" /\ ret.err.kind = "KeyError" /\ ret.err.number = 6
    /\ 6 \in Range(ret.system[1].numbers) /\ 6 \notin Range(Me.atomic_numbers)
    /\ described # "none"
    /\ log = <<>>

\* the weighting w has no function other than unity for order i
Unweighted(w, i) ==
    \/ w[1][KName(i)][1] \in {"absent", "none"}
    \/ w[1][KName(i)][2].function \in {None, <<"unity">>}

\* C5: constructing a periodic configuration whose requested orders contain
\* one greater than 1 raises an error when the weighting is absent, or when
\* that of a requested order > 1 is absent or unity; nothing is processed
C5_PeriodicNeedsWeighting ==
    (ret.op = "init" /\ ret.config[1].periodic) =>
        LET c == ret.config[1]
            above == {i \in Range(c.k.elems) : i > 1}
        IN  /\ (/\ c.k.type \in {"set", "list"} /\ above # {}
                /\ \/ IsNone(c.weighting)
                   \/ \E i \in above \cap 2..3 : Unweighted(c.weighting, i))
               => (IsError(ret.err) /\ pc = "failed" /\ self = None /\ log = <<>>)
            /\ (/\ c.k.type \in {"set", "list"} /\ above # {} /\ above \subseteq 2..3
                /\ \/ IsNone(c.weighting)
                   \/ \A i \in above : c.weighting[1][KName(i)] = Unity)
               => ret.err = Raise("ValueError", CHOOSE i \in above : \A j \in above : i <= j,
                                  "periodic needs weighting")

\* a periodic configuration of order 2 without weighting was refused
C5_Witness ==
    /\ ret.op = "init" /\ pc = "failed" /\ self = None
    /\ ret.config[1].periodic /\ ret.config[1].k = KSet(<<2>>)
    /\ IsNone(ret.config[1].weighting)
    /\ ret.err.kind = "ValueError" /\ ret.err.name = "periodic needs weighting"

\* the copy counts C6 states: for each axis, from that axis's own length
OwnAxisCopies(me, system, order) ==
    LET info == me.weighting[1][KName(order)][2]
    IN  [a \in 1..3 |-> CopySearch(0, system.cell[a], order, info.scale[1], info.cutoff[1])]

\* C6: in periodic expansion the copy count of each cell-vector direction
\* is the smallest c for which the weighting function at c times that
\* direction's own length (doubled for order 3) is below the cutoff
C6_CopiesFromOwnAxisLength ==
    \A x \in DOMAIN log :
        log[x].call = "expand" =>
            log[x].copies = OwnAxisCopies(Me, Me.system[1], log[x].order)

\* C7: create_extended_system applied, with the same order and weighting,
\* to the structure it returned adds no further atoms
C7_ExpansionIdempotent ==
    pc = "reexpanded" =>
        Len(ret.value.system[1].numbers) = Len(ret.system[1].numbers)

\* C8: every explicit grid of a requested order that passed validation has
\* min < max and a positive integer n
C8_ValidatedGrid ==
    (pc = "ready" /\ ~IsNone(Me.grid)) =>
        \A i \in Range(KSeq(Me)) :
            Me.grid[1][KName(i)][1] = "info" =>
                LET info == Me.grid[1][KName(i)][2]
                IN  /\ info.min[1] < info.max[1]
                    /\ info.n[1][2] = 1
                    /\ info.n[1][1] > 0

\* a new instance with the configuration of me
Fresh(me) ==
    MBTR(me.atomic_numbers, me.k, me.periodic, me.grid, me.weighting,
         me.normalize_by_volume, me.flatten).me

\* C9: the result of a describe() call, whatever calls came before it on
\* the instance, is the result a newly constructed instance with the same
\* configuration gives for the structure
C9_DescribeAsFreshInstance ==
    (pc = "ready" /\ ret.op = "describe") =>
        LET r == describe(Fresh(Me), ret.system[1])
        IN  /\ r.err = ret.err
            /\ r.value = ret.value
            /\ r.log = log
            /\ r.me = Me

\* describe() returned a result on an instance on which two or more
\* earlier describe() calls had returned one
C9_Witness ==
    /\ Returned("describe") /\ described = "more"
    /\ Me.periodic /\ KSeq(Me) = <<1, 2, 3>>
    /\ ret.value.data # {}

\* C10: the output holds the tensors of exactly the requested orders in
\* ascending order: flattened, the columns of order k start at the summed
\* widths of the smaller requested orders; otherwise the list has one
\* array per requested order, ascending
C10_AscendingOrders ==
    (pc = "ready" /\ ret.op \in {"describe", "create_with_grid"} /\ ~IsError(ret.err)) =>
        IF Me.flatten
        THEN /\ ret.value.width = SumFeatures(Me, KSeq(Me))
             /\ \A b \in ret.value.data :
                    LET order == Len(b.key)
                    IN  /\ InK(Me, order)
                        /\ b.start >= OrderOffset(Me, order)
                        /\ b.end <= OrderOffset(Me, order) + FeaturesOfOrder(Me, order)
                        /\ b.end - b.start = GridN(get_settings(Me, order))
        ELSE /\ Len(ret.value.parts) = Len(KSeq(Me))
             /\ \A x \in DOMAIN ret.value.parts :
                    LET part == ret.value.parts[x]
                    IN  /\ part.order = KSeq(Me)[x]
                        /\ Len(part.shape) = part.order + 1
                        /\ \A b \in part.data : Len(b.key) = part.order

\* orders 1 and 2 flattened: the first block of order 2 starts where the
\* columns of order 1 end
C10_Witness ==
    /\ Returned("describe") /\ Me.flatten /\ KSeq(Me) = <<1, 2>>
    /\ BlocksOf(1) # {}
    /\ \E b \in BlocksOf(2) : b.start = FeaturesOfOrder(Me, 1) /\ b.start > 0


----------------------------------------------------------------------------
\* every block of a returned result, flattened or not
ResultBlocks ==
    IF ret.value.flat THEN ret.value.data
    ELSE UNION {ret.value.parts[x].data : x \in DOMAIN ret.value.parts}

\* C11: with normalize_by_volume every value of a result of describe() or
\* create_with_grid() is divided once, by the cell volume of the structure
\* that was passed to describe(), flattened or not and however often
\* create_with_grid() is repeated; without it no value is divided
C11_DividedOnceByVolume ==
    (pc = "ready" /\ ret.op \in {"describe", "create_with_grid"} /\ ~IsError(ret.err)) =>
        /\ ret.op = "describe" => Me.system = ret.system
        /\ \A b \in ResultBlocks :
               b.values.divided = IF Me.normalize_by_volume
                                  THEN <<get_volume(Me.system[1])>>
                                  ELSE <<>>

\* a repeated create_with_grid() returned normalized values of a periodic
\* structure of the second cell, which was described after others
C11_Witness ==
    /\ Returned("create_with_grid") /\ described = "more" /\ regridded = "more"
    /\ Me.normalize_by_volume /\ Me.periodic
    /\ Me.system[1].cell = OtherCell
    /\ ~IsNone(Me.axis_k2)
    /\ \E b \in ResultBlocks : b.values.divided = <<54>>


----------------------------------------------------------------------------
\* the entry at row i and column j of the output of a matrix descriptor
EntryAt(i, j) ==
    IF Me.flatten THEN ret.value[(i - 1) * Me.n_atoms_max + j] ELSE ret.value[i][j]

\* the number of entries of the output of a matrix descriptor
EntryCount ==
    IF Me.flatten THEN Len(ret.value) ELSE Len(ret.value) * Len(ret.value[1])

\* C12: for a structure of at most n_atoms_max particles the output of the
\* sorted Coulomb and sine matrix descriptors has n_atoms_max^2 entries,
\* which is get_number_of_features(); its top-left block is the interaction
\* matrix with rows and columns permuted by one permutation that makes the
\* row norms non-increasing, and every other entry is zero
C12_SortedAndZeroPadded ==
    (ret.op = "describe" /\ Len(ret.system[1].numbers) <= Me.n_atoms_max) =>
        LET n == Len(ret.system[1].numbers)
            mat == Interaction(Me, ret.system[1])
        IN  /\ ~IsError(ret.err)
            /\ EntryCount = Me.n_atoms_max * Me.n_atoms_max
            /\ EntryCount = matrix_get_number_of_features(Me)
            /\ \E p \in Permutations(1..n) :
                   /\ \A i, j \in 1..n : EntryAt(i, j) = mat[p[i]][p[j]]
                   /\ \A i \in 1..(n - 1) :
                          SumOfSquares(mat[p[i]]) >= SumOfSquares(mat[p[i + 1]])
            /\ \A i, j \in 1..Me.n_atoms_max :
                   (i > n \/ j > n) => EntryAt(i, j) = 0
            /\ \A i \in 1..(n - 1) :
                   SumOfSquares([j \in 1..n |-> EntryAt(i, j)])
                       >= SumOfSquares([j \in 1..n |-> EntryAt(i + 1, j)])

\* the sine matrix of the charges 1, 32, 1, flattened to 9 entries: the
\* row of the heavy atom comes first, a row and a column of zeros are last
C12_Witness ==
    /\ ret.op = "describe" /\ ~IsError(ret.err)
    /\ Me.class = "SortedSineMatrix" /\ Me.flatten /\ Me.n_atoms_max = 3
    /\ ret.system[1].numbers = <<1, 32>>
    /\ Len(ret.value) = 9
    /\ ret.value[1] = 6 * 4096
    /\ ret.value[5] = 6
    /\ ret.value[2] = ret.value[4] /\ ret.value[2] > 0
    /\ ret.value[9] = 0 /\ ret.value[3] = 0 /\ ret.value[7] = 0


----------------------------------------------------------------------------
\* k is an int, cannot be made into a set, or has a value outside {1, 2, 3}
InvalidK(k) == k.type \in {"int", "none"} \/ ~(Range(k.elems) \subseteq 1..3)

\* the errors of the k check
KErrors == {Raise("ValueError", 0, "k is an int"),
            Raise("ValueError", 0, "k cannot be made into a set"),
            Raise("ValueError", 0, "invalid k value")}

\* C13: the constructor and every describe() call validate k first: an int,
\* a value that cannot be made into a set or a set with a value outside
\* {1, 2, 3} raises ValueError before a structure is processed (describe()
\* leaves k as it found it or as the set it made of it, so the k of the
\* instance after a describe() call tells what kind the k before it was);
\* when the call returns, k is a set within {1, 2, 3}
C13_KValidatedEveryCall ==
    /\ ret.op = "init" =>
           /\ InvalidK(ret.config[1].k) =>
                  /\ pc = "failed" /\ self = None
                  /\ ret.err \in KErrors /\ log = <<>>
           /\ ~IsError(ret.err) =>
                  /\ Me.k.type = "set" /\ Range(Me.k.elems) \subseteq 1..3
    /\ ret.op = "describe" =>
           /\ InvalidK(Me.k) =>
                  /\ ret.err \in KErrors /\ log = <<>> /\ ret.value = NoValue
                  /\ \A order \in 1..3 :
                         IsNone(CachedGeoms(Me, order)) /\ IsNone(CachedWeights(Me, order))
           /\ ~IsError(ret.err) =>
                  /\ Me.k.type = "set" /\ Range(Me.k.elems) \subseteq 1..3
                  /\ Me.k.elems = SortedSeq(Range(Me.k.elems))

\* describe() raised for a k that was assigned an int after an earlier
\* describe() call on the instance had returned a result
C13_Witness ==
    /\ ret.op = "describe" /\ pc = "ready"
    /\ Me.k.type = "int"
    /\ ret.err = Raise("ValueError", 0, "k is an int")
    /\ described # "none"
    /\ log = <<>>


----------------------------------------------------------------------------
\* the atom a of structure P shifted to the image (i, j, k)
ShiftedAtom(P, a, i, j, k) ==
    [number |-> P.numbers[a],
     pos |-> <<P.positions[a][1] + i * P.cell[1],
               P.positions[a][2] + j * P.cell[2],
               P.positions[a][3] + k * P.cell[3]>>]

\* exp(-scale * mult * d) >= cutoff for the weighting info of an order, on
\* the squared distance d2 and the cutoff exp(-nlog2 / 2)
WeightMeetsCutoff(info, order, d2) ==
    Sq(2 * info.scale[1] * (IF order = 3 THEN 2 ELSE 1)) * d2 <= Sq(info.cutoff[1].nlog2)

\* the shifted atoms C14 states for the copy counts c, each as <<atom,
\* image>>: those of the images other than the origin that are within the
\* cutoff of an atom of P
KeptImages(P, info, order, c) ==
    {s \in (DOMAIN P.numbers)
            \X (((-c[1])..c[1]) \X ((-c[2])..c[2]) \X ((-c[3])..c[3]) \ {<<0, 0, 0>>}) :
        \E b \in DOMAIN P.positions :
            WeightMeetsCutoff(info, order,
                              Dist2(ShiftedAtom(P, s[1], s[2][1], s[2][2], s[2][3]).pos,
                                    P.positions[b]))}

\* what the atoms and images of a set of kept images are
AtomsOf(P, kept) == {ShiftedAtom(P, s[1], s[2][1], s[2][2], s[2][3]) : s \in kept}

\* C14: the structure create_extended_system() returns has the atoms of the
\* original cell first, in their order, then exactly the shifted atoms of the
\* images within the copy counts, the origin excluded, whose weight to at
\* least one original atom (distance doubled for order 3) is at least the
\* cutoff; it is not periodic; and in describe() the aggregator is given the
\* number of atoms of the original cell and, for orders 2 and 3 of a
\* periodic configuration, the extended structure
C14_ExtendedStructure ==
    /\ pc \in {"expanded", "reexpanded"} =>
           LET P == ret.system[1]
               E == ret.value.system[1]
               n == Len(P.numbers)
               order == log[1].order
               kept == KeptImages(P, Me.weighting[1][KName(order)][2], order, log[1].copies)
           IN  /\ SubSeq(E.numbers, 1, n) = P.numbers
               /\ SubSeq(E.positions, 1, n) = P.positions
               /\ Len(E.positions) = Len(E.numbers)
               /\ {[number |-> E.numbers[x], pos |-> E.positions[x]] :
                      x \in (n + 1)..Len(E.numbers)} = AtomsOf(P, kept)
               /\ Len(E.numbers) - n = Cardinality(kept)
               /\ E.pbc = FALSE
               /\ E.cell = P.cell
    /\ (pc = "ready" /\ ret.op = "describe") =>
           \A x \in DOMAIN log :
               /\ log[x].call = "aggregate" =>
                      /\ log[x].n_atoms_in_cell = Len(ret.system[1].numbers)
                      /\ (Me.periodic /\ log[x].order > 1) =>
                             /\ x > 1 /\ log[x - 1].call = "expand"
                             /\ log[x - 1].order = log[x].order
                             /\ log[x].n_atoms = log[x - 1].n_atoms
               /\ log[x].call = "expand" =>
                      log[x].n_atoms =
                          Len(ret.system[1].numbers)
                          + Cardinality(KeptImages(ret.system[1],
                                                   Me.weighting[1][KName(log[x].order)][2],
                                                   log[x].order, log[x].copies))

\* the expansion of a two-atom structure for order 2 kept some shifted
\* atoms and dropped others of the 26 images
C14_Witness ==
    /\ pc = "expanded" /\ log[1].order = 2 /\ log[1].copies = <<1, 1, 1>>
    /\ Len(ret.system[1].numbers) = 2
    /\ Len(ret.value.system[1].numbers) > 2
    /\ Len(ret.value.system[1].numbers) < 2 * 27
    /\ ~ret.value.system[1].pbc /\ ret.system[1].pbc


----------------------------------------------------------------------------
\* the weighting info of the order of an expansion call
InfoOf(c) == Me.weighting[1][KName(c.order)][2]

\* C15: with an exponential weighting of scale > 0 and cutoff > 0, on a
\* cell with vectors of non-zero length, the copy-count search of each axis
\* ends; with a cutoff above 1 it ends at 0 copies, and the expansion adds
\* no atom
C15_SearchEnds ==
    \A x \in DOMAIN log :
        (/\ log[x].call = "expand"
         /\ InfoOf(log[x]).scale[1] > 0 /\ InfoOf(log[x]).cutoff[1].pos
         /\ \A a \in 1..3 : ret.system[1].cell[a] > 0) =>
            /\ \A a \in 1..3 : log[x].copies[a] >= 0
            /\ (x = Len(log) /\ ret.op = "create_extended_system") => pc # "hung"
            /\ InfoOf(log[x]).cutoff[1].nlog2 < 0 =>
                   /\ log[x].copies = <<0, 0, 0>>
                   /\ log[x].n_atoms = Len(ret.system[1].numbers)

\* describe() of a two-atom structure returned after expansions, for orders
\* 2 and 3 and a cutoff above 1, that made no copies and added no atoms
C15_Witness ==
    /\ Returned("describe") /\ Me.periodic /\ KSeq(Me) = <<1, 2, 3>>
    /\ Len(ret.system[1].numbers) = 2
    /\ Len(log) = 5
    /\ log[2].call = "expand" /\ log[2].copies = <<0, 0, 0>> /\ log[2].n_atoms = 2
    /\ log[4].call = "expand" /\ log[4].copies = <<0, 0, 0>> /\ log[4].n_atoms = 2
    /\ InfoOf(log[2]).cutoff[1].nlog2 < 0


----------------------------------------------------------------------------
\* C16: after a describe(S) call that returned, every create_with_grid(g)
\* with a grid g that passes validation returns the features of S under g
\* (what a new instance configured with g returns for S), with no call of
\* the aggregator or of the expansion; g is then the configured grid, and
\* the width of a flattened result is get_number_of_features()
C16_RegridFromCache ==
    (/\ pc = "ready" /\ ret.op = "create_with_grid"
     /\ ~IsNone(subject) /\ ~IsNone(ret.grid[1])
     /\ ~IsError(check_grid(Me, ret.grid[1]).err)) =>
        /\ ~IsError(ret.err)
        /\ Me.grid = check_grid(Me, ret.grid[1]).grid
        /\ ret.value = describe(Fresh(Me), subject[1]).value
        /\ log = <<>>
        /\ Me.flatten => ret.value.width = get_number_of_features(Me)


----------------------------------------------------------------------------
\* the other of the two callers
Other(c) == 3 - c

\* caller c takes its create_with_grid() step after the other caller's
\* initialize_scalars() ran later than its own: the structure of the
\* instance is then the other caller's (or an equal one)
ReturnsInterleaved(c) ==
    /\ pc[c] = "initialized" /\ pc'[c] = "returned"
    /\ pc[Other(c)] # "idle"
    /\ self[1].system = ret[Other(c)].system

\* C17: when the initialize_scalars() of a second describe() call runs
\* between the initialize_scalars() and the create_with_grid() of a first
\* one on the same instance, the first call returns what describe() gives
\* for the structure of the second call
C17_InterleavedDescribe ==
    [][\A c \in Callers :
          ReturnsInterleaved(c) =>
              /\ ret'[c].system = ret[c].system
              /\ ret'[c].err = NoError
              /\ ret'[c].value = describe(Fresh(self[1]), ret[Other(c)].system[1]).value]_vars

\* caller 1 called describe() for a structure of one atom of atomic number
\* 1 and got the order 1 features of a structure of two atoms of atomic
\* number 6, that of caller 2, who has not returned yet
C17_Witness ==
    /\ pc = <<"returned", "initialized">>
    /\ ret[1].system[1].numbers = <<1>> /\ ret[2].system[1].numbers = <<6, 6>>
    /\ ret[1].err = NoError /\ ret[1].value.flat
    /\ ret[1].value # describe(Fresh(Me), ret[1].system[1]).value
    /\ \E b \in ret[1].value.data :
           /\ Len(b.key) = 1
           /\ b.values.centers = <<<<6>>, <<6>>>>
    /\ \A b \in ret[1].value.data : Len(b.key) = 1 => b.values.centers[1] = <<6>>


----------------------------------------------------------------------------
\* no geometry and no weights of any order are cached in the instance
NoGeometry(me) ==
    /\ IsNone(me.k1_geoms) /\ IsNone(me.k1_weights)
    /\ IsNone(me.k2_geoms) /\ IsNone(me.k2_weights)
    /\ IsNone(me.k3_geoms) /\ IsNone(me.k3_weights)

\* the step is a describe(system) call whose initialize_scalars() raises:
\* the configuration is not valid any more or the structure has an atomic
\* number that was not declared
DescribeFails ==
    /\ pc = "ready" /\ pc' = "ready" /\ ret'.op = "describe"
    /\ IsError(initialize_scalars(self[1], ret'.system[1]).err)

\* the step is a create_with_grid() call that follows a describe() call
\* which failed and left no geometry
RegridAfterFailure ==
    /\ pc = "ready" /\ ret.op = "describe" /\ IsError(ret.err) /\ NoGeometry(self[1])
    /\ pc' = "ready" /\ ret'.op = "create_with_grid"

\* C18: a describe() call that fails on the configuration or on an atomic
\* number that was not declared returns nothing and leaves every cached
\* geometry and weight field empty, and the create_with_grid() call that
\* follows it raises or returns no features
C18_FailedDescribeLeavesNothing ==
    [][/\ DescribeFails =>
              /\ ret'.err = initialize_scalars(self[1], ret'.system[1]).err
              /\ ret'.value = NoValue
              /\ NoGeometry(self'[1])
              /\ subject' = None
       /\ RegridAfterFailure =>
              \/ IsError(ret'.err) /\ ret'.value = NoValue
              \/ ret'.value.data = {} /\ ret'.value.parts = <<>>]_vars

\* a describe() call returned features, k was then made an int, the next
\* describe() call failed on it, and the create_with_grid() call after that
\* raised: the instance holds no geometry
C18_Witness ==
    /\ pc = "ready" /\ ret.op = "create_with_grid"
    /\ described # "none" /\ subject = None /\ regridded = "one"
    /\ Me.k.type = "int"
    /\ IsError(ret.err) /\ ret.value = NoValue
    /\ NoGeometry(Me)


----------------------------------------------------------------------------
\* the orders K1, K2, K3 can broaden in the instance as it is: the order is
\* requested, its geometry and weights are cached and np.linspace() takes
\* the n of its grid
Broadened(me) ==
    {order \in 1..3 :
        /\ InK(me, order)
        /\ ~IsNone(CachedGeoms(me, order)) /\ ~IsNone(CachedWeights(me, order))
        /\ GridN(get_settings(me, order)) >= 0}

\* C19: whatever grid validation accepted, gaussian_sum returns n values
\* for every combination of every order it is called for, dx being defined
C19_GaussianSumReturnsNValues ==
    (pc = "ready" /\ ~IsNone(self) /\ Me.k.type = "set") =>
        \A order \in Broadened(Me) :
        \A key \in DOMAIN CachedGeoms(Me, order)[1] :
            LET settings == get_settings(Me, order)
                g == gaussian_sum(Me, CachedGeoms(Me, order)[1][key],
                                  CachedWeights(Me, order)[1][key], settings)
            IN  /\ ~IsError(g.err)
                /\ g.values.n = GridN(settings)


----------------------------------------------------------------------------
\* C20: in a periodic configuration whose weighting update() accepts, the
\* copy-count search of every expansion ends, on a cell with vectors of
\* non-zero length: no call stays in the loop, and every axis gets a count
C20_SearchEndsWhenValidated ==
    (/\ ~IsNone(self) /\ ret.op \in {"describe", "create_extended_system"}
     /\ Me.periodic /\ ~IsNone(Me.weighting)
     /\ ~IsError(update(Me).err)
     /\ \A a \in 1..3 : ret.system[1].cell[a] > 0) =>
        /\ pc # "hung"
        /\ \A x \in DOMAIN log :
               log[x].call = "expand" => \A a \in 1..3 : log[x].copies[a] >= 0


----------------------------------------------------------------------------
\* the calls of the aggregator for one order among calls
AggregationsOf(calls, order) ==
    {x \in DOMAIN calls : calls[x].call = "aggregate" /\ calls[x].order = order}

\* the step is a call of the method of one order made while the geometry
\* and the weights of that order are cached
CalledOnCache(order) ==
    /\ pc = "ready" /\ ret'.op = GeomsAndWeightsName(order)
    /\ ~IsNone(CachedGeoms(self[1], order)) /\ ~IsNone(CachedWeights(self[1], order))

\* C21: a describe() call aggregates the geometry of order 3 at most once,
\* and a k3_geoms_and_weights() call made while the geometry and the
\* weights of order 3 are cached calls no aggregator and leaves the
\* instance as it is
C21_Order3AggregatedOnce ==
    [][/\ (pc = "ready" /\ ret'.op = "describe") =>
              Cardinality(AggregationsOf(log', 3)) <= 1
       /\ CalledOnCache(3) => (log' = <<>> /\ self' = self)]_vars

====
